---- MODULE Spec2Model ----
(***************************************************************************)
(* NativeModuleInstance (src/interpreter/env_native.rs): a module instance *)
(* that wraps another module instance (env) and adds a list of native user *)
(* functions, addressed by the indices from NATIVE_INDEX_FUNC_MIN upwards  *)
(* and executed by a UserFunctionExecutor kept behind an RwLock.           *)
(*                                                                         *)
(* A call of a method of the instance is a frame on the calling thread's   *)
(* stack.  The wrapped module and the executor are code of the embedder:   *)
(* while a frame is inside one of them (pc "env", pc "exec") that code may *)
(* call the instance again (a nested frame) and finally returns any result.*)
(***************************************************************************)
EXTENDS Integers, Sequences, FiniteSets

VARIABLES functions, by_name, built, executor, stack, halted

vars == <<functions, by_name, built, executor, stack, halted>>

(* ------------------------------- bounds -------------------------------- *)

\* Longest list of user functions a module is built from.
MaxFuncs == 2
\* Deepest nesting of calls on one thread (a call made from inside the
\* executor or the wrapped module is one level deeper).
MaxDepth == 3

(* ------------------------------ constants ------------------------------ *)

NATIVE_INDEX_FUNC_MIN == 10001

(* ------------------------------- values -------------------------------- *)

Ok(v) == [tag |-> "Ok", val |-> v]
Err(e) == [tag |-> "Err", val |-> e]

\* Internal::Function(index)
InternalFunction(index) == [k |-> "Function", idx |-> index]
\* FunctionType::new(params, result)
FunctionTypeNew(params, result) == [k |-> "FunctionType", params |-> params, result |-> result]
\* Error::Native(format!("<msg> {}", index))
ErrorNative(msg, index) == [k |-> "Native", msg |-> msg, idx |-> index]

\* UserFunction: name(), params(), result() read these fields, whichever
\* descriptor variant (Static, Heap) holds them.
UserFunction(name, params, result) == [name |-> name, params |-> params, result |-> result]

\* Option<ValueType> is a sequence of at most one value type.
Descriptors ==
    { UserFunction("add", <<"I32", "I32">>, <<"I32">>),
      UserFunction("add", <<"I64">>, <<>>),
      UserFunction("sub", <<>>, <<"F64">>) }

Registries == UNION { [1..n -> Descriptors] : n \in 0..MaxFuncs }
SmallRegistries ==
    { [i \in 1..n |-> UserFunction("add", <<"I32", "I32">>, <<"I32">>)] : n \in 1..MaxFuncs }

Threads == {"t1", "t2"}
MainThread == {"t1"}

\* What the wrapped module and the executor may return: opaque to this layer.
EnvResults == { Ok([k |-> "EnvValue", id |-> "v1"]), Ok(InternalFunction(3)),
                Err([k |-> "EnvError", id |-> "e1"]) }
ExecResults == { Ok([k |-> "Some", id |-> "r1"]), Ok([k |-> "None", id |-> "-"]),
                 Err([k |-> "UserError", id |-> "x1"]) }

(* --------------------------- calls and frames -------------------------- *)

\* The arguments of one call of a ModuleInstanceInterface method; a field a
\* method does not take keeps its blank value.
Blank == [op |-> "-", ctx |-> "-", kind |-> "-", idx |-> 0, name |-> "-",
          ext |-> "-", ty |-> "-", aux |-> "-", tbl |-> 0, tyidx |-> 0]

Frame(call, pc, envCalls, ret) ==
    [call |-> call, pc |-> pc, envCalls |-> envCalls, execCalls |-> <<>>,
     locks |-> 0, got |-> <<>>, ret |-> ret]

\* What a forwarding method passes to the wrapped module: its own arguments.
ForwardArgs(call) == call

\* self.env.<op>(<the same arguments>): the frame is inside the wrapped module.
Forwarded(call) == Frame(call, "env", <<ForwardArgs(call)>>, <<>>)
\* The method returned r without calling anything.
Completed(call, r) == Frame(call, "ret", <<>>, <<r>>)
\* The method is at self.executor.write().
Waiting(call) == Frame(call, "lock", <<>>, <<>>)
\* The method hit unreachable!().
Panicked(call) == Frame(call, "panic", <<>>, <<>>)

Depth(t) == Len(stack[t])
Top(t) == stack[t][Len(stack[t])]
Push(t, f) == stack' = [stack EXCEPT ![t] = Append(@, f)]
SetTop(t, f) == stack' = [stack EXCEPT ![t] = [@ EXCEPT ![Len(@)] = f]]

\* A thread may call the instance when it is outside it, or from the code
\* the instance called (the executor, the wrapped module).
CanCall(t) ==
    /\ built
    /\ ~halted
    /\ \/ Depth(t) = 0
       \/ /\ Depth(t) > 0
          /\ Depth(t) < MaxDepth
          /\ Top(t).pc \in {"env", "exec"}

(* ------------------------------ registry ------------------------------- *)

\* An insert that keeps the value a key already has.
InsertKeepFirst(m, k, v) ==
    [x \in (DOMAIN m) \cup {k} |-> IF x \in DOMAIN m THEN m[x] ELSE v]

\* HashMap::insert: a later value replaces an earlier one of the same key.
Insert(m, k, v) == [x \in (DOMAIN m) \cup {k} |-> IF x = k THEN v ELSE m[x]]

RECURSIVE Collect(_, _, _)
Collect(fs, i, m) ==
    IF i > Len(fs) THEN m
    ELSE Collect(fs, i + 1, Insert(m, fs[i].name, i - 1))

\* functions.iter().enumerate().map(|(i, f)| (f.name().to_owned(), i as u32)).collect()
CollectByName(fs) == Collect(fs, 1, <<>>)

\* get with the position wrapped into the list instead of checked against it.
GetWrapping(fs, n) == IF fs = <<>> THEN <<>> ELSE <<fs[(n % Len(fs)) + 1]>>

\* self.functions.get(n as usize)
Get(fs, n) == IF n < Len(fs) THEN <<fs[n + 1]>> ELSE <<>>

(* ------------------------------- actions ------------------------------- *)

Init ==
    /\ functions = <<>>
    /\ by_name = <<>>
    /\ built = FALSE
    /\ executor = "free"
    /\ stack = [t \in Threads |-> <<>>]
    /\ halted = FALSE

\* NativeModuleInstance::new / env_native_module
New(fs) ==
    /\ ~built
    /\ functions' = fs
    /\ by_name' = CollectByName(fs)
    /\ built' = TRUE
    /\ executor' = "free"
    /\ UNCHANGED <<stack, halted>>

\* index < NATIVE_INDEX_FUNC_MIN in function_type
FunctionTypeForwards(index) == index < NATIVE_INDEX_FUNC_MIN

\* index < NATIVE_INDEX_FUNC_MIN in call_internal_function
CallInternalForwards(index) == index < NATIVE_INDEX_FUNC_MIN

\* The wrapped module's error wrapped into an error of this layer.
ForwardResultWrapped(r) ==
    IF r.tag = "Err" THEN Err(ErrorNative("env module failed", 0)) ELSE r

\* What a forwarding method returns of the wrapped module's result r.
ForwardResult(r) == r

\* The frame is inside the wrapped module, called with the method's arguments.
Forward(t, call) ==
    /\ CanCall(t)
    /\ Push(t, Forwarded(call))
    /\ UNCHANGED <<functions, by_name, built, executor, halted>>

\* unreachable!(): the thread panics.  Built to abort, the process ends; built
\* to unwind, the thread's frames are dropped, and with them the write guard
\* of the executor when one of them holds it.
Unreachable(t, call) ==
    \E abort \in BOOLEAN :
        IF abort
        THEN /\ halted' = TRUE
             /\ Push(t, Panicked(call))
             /\ UNCHANGED executor
        ELSE /\ stack' = [stack EXCEPT ![t] = <<Panicked(call)>>]
             /\ executor' = IF executor = t THEN "free" ELSE executor
             /\ UNCHANGED halted

Instantiate(t, is_user_module, externals) ==
    Forward(t, [Blank EXCEPT !.op = "instantiate", !.aux = is_user_module,
                             !.ext = externals])

ExecuteIndex(t, index, params) ==
    Forward(t, [Blank EXCEPT !.op = "execute_index", !.idx = index, !.aux = params])

ExecuteExport(t, name, params) ==
    Forward(t, [Blank EXCEPT !.op = "execute_export", !.name = name, !.aux = params])

\* The position taken as counted from one.
ExportEntryNativeOneBased(name, required_type) ==
    IF name \in DOMAIN by_name
    THEN <<Ok(InternalFunction(NATIVE_INDEX_FUNC_MIN + by_name[name] + 1))>>
    ELSE <<>>

\* A native function reported only when a function is asked for.
ExportEntryNativeTyped(name, required_type) ==
    IF name \in DOMAIN by_name /\ required_type \in {"Any", "Function"}
    THEN <<Ok(InternalFunction(NATIVE_INDEX_FUNC_MIN + by_name[name]))>>
    ELSE <<>>

\* self.by_name.get(name) of export_entry, and what is returned when it is
\* Some; required_type is not read.
ExportEntryNative(name, required_type) ==
    IF name \in DOMAIN by_name
    THEN <<Ok(InternalFunction(NATIVE_INDEX_FUNC_MIN + by_name[name]))>>
    ELSE <<>>

ExportEntry(t, name, externals, required_type) ==
    LET call == [Blank EXCEPT !.op = "export_entry", !.name = name,
                              !.ext = externals, !.ty = required_type]
        found == ExportEntryNative(name, required_type)
    IN  IF found # <<>>
        THEN /\ CanCall(t)
             /\ Push(t, Completed(call, found[1]))
             /\ UNCHANGED <<functions, by_name, built, executor, halted>>
        ELSE Forward(t, call)

\* The native branch of function_type.
NativeFunctionType(index) ==
    LET f == Get(functions, index - NATIVE_INDEX_FUNC_MIN)
    IN  IF f = <<>>
        THEN Err(ErrorNative("missing native env function with index", index))
        ELSE Ok(FunctionTypeNew(f[1].params, f[1].result))

\* The index taken of every variant.
ItemIndexValueAny(kind, index) == <<index>>

\* match function_index: the index of IndexSpace(index) and Internal(index),
\* nothing (unreachable!) of External(_).
ItemIndexValue(kind, index) ==
    IF kind \in {"IndexSpace", "Internal"} THEN <<index>> ELSE <<>>

FunctionType(t, kind, index, externals) ==
    LET call == [Blank EXCEPT !.op = "function_type", !.kind = kind,
                              !.idx = index, !.ext = externals]
        matched == ItemIndexValue(kind, index)
    IN  IF matched = <<>>
        THEN /\ CanCall(t)
             /\ Unreachable(t, call)
             /\ UNCHANGED <<functions, by_name, built>>
        ELSE IF FunctionTypeForwards(matched[1])
        THEN Forward(t, call)
        ELSE /\ CanCall(t)
             /\ Push(t, Completed(call, NativeFunctionType(matched[1])))
             /\ UNCHANGED <<functions, by_name, built, executor, halted>>

Table(t, kind, index) ==
    Forward(t, [Blank EXCEPT !.op = "table", !.kind = kind, !.idx = index])

Memory(t, kind, index) ==
    Forward(t, [Blank EXCEPT !.op = "memory", !.kind = kind, !.idx = index])

Global(t, kind, index, variable_type) ==
    Forward(t, [Blank EXCEPT !.op = "global", !.kind = kind, !.idx = index,
                             !.ty = variable_type])

CallFunction(t, outer, kind, index, function_type) ==
    Forward(t, [Blank EXCEPT !.op = "call_function", !.ctx = outer, !.kind = kind,
                             !.idx = index, !.ty = function_type])

CallFunctionIndirect(t, outer, kind, table_index, type_index, func_index) ==
    Forward(t, [Blank EXCEPT !.op = "call_function_indirect", !.ctx = outer,
                             !.kind = kind, !.tbl = table_index,
                             !.tyidx = type_index, !.idx = func_index])

\* The native branch of call_internal_function up to and_then: the function
\* to execute, or the error.
NativeCallTarget(index) ==
    LET f == Get(functions, index - NATIVE_INDEX_FUNC_MIN)
    IN  IF f = <<>>
        THEN Err(ErrorNative("trying to call native function with index", index))
        ELSE Ok(f[1])

CallInternalFunction(t, outer, index, function_type) ==
    LET call == [Blank EXCEPT !.op = "call_internal_function", !.ctx = outer,
                              !.idx = index, !.ty = function_type]
        f == NativeCallTarget(index)
    IN  IF CallInternalForwards(index)
        THEN Forward(t, call)
        ELSE /\ CanCall(t)
             /\ Push(t, IF f.tag = "Err" THEN Completed(call, f) ELSE Waiting(call))
             /\ UNCHANGED <<functions, by_name, built, executor, halted>>

\* A shared lock (RwLock::read).
CanWriteShared(t) == TRUE

\* A lock its holder may take again.
CanWriteReentrant(t) == executor \in {"free", t}

\* RwLock::write: exclusive, and not re-entrant.
CanWrite(t) == executor = "free"

\* The arguments of execute: the function's name and the caller's context.
ExecuteArgs(f, outer) == [name |-> f.name, ctx |-> outer]

\* self.executor.write().execute(&f.name(), outer): the lock is taken and the
\* frame enters the executor.
ExecutorWrite(t) ==
    /\ ~halted
    /\ Depth(t) > 0
    /\ Top(t).pc = "lock"
    /\ CanWrite(t)
    /\ executor' = t
    /\ SetTop(t, [Top(t) EXCEPT
            !.pc = "exec",
            !.locks = @ + 1,
            !.execCalls = Append(@, ExecuteArgs(NativeCallTarget(Top(t).call.idx).val,
                                                Top(t).call.ctx))])
    /\ UNCHANGED <<functions, by_name, built, halted>>

\* The executor's error wrapped into an error of this layer.
NativeCallResultWrapped(r) ==
    IF r.tag = "Err" THEN Err(ErrorNative("native function failed", 0)) ELSE r

\* What call_internal_function returns of the executor's result r.
NativeCallResult(r) == r

\* The guard kept when the executor fails.
ExecutorReturnLeaking(t, r) ==
    /\ ~halted
    /\ Depth(t) > 0
    /\ Top(t).pc = "exec"
    /\ executor' = IF r.tag = "Err" THEN executor ELSE "free"
    /\ SetTop(t, [Top(t) EXCEPT !.pc = "ret", !.got = <<r>>, !.ret = <<r>>])
    /\ UNCHANGED <<functions, by_name, built, halted>>

\* The executor returns r; the write guard is dropped at the end of the
\* statement, and r is the method's result.
ExecutorReturn(t, r) ==
    /\ ~halted
    /\ Depth(t) > 0
    /\ Top(t).pc = "exec"
    /\ executor' = "free"
    /\ SetTop(t, [Top(t) EXCEPT !.pc = "ret", !.got = <<r>>,
                                !.ret = <<NativeCallResult(r)>>])
    /\ UNCHANGED <<functions, by_name, built, halted>>

\* The wrapped module returns r, and r is the forwarding method's result.
EnvReturn(t, r) ==
    /\ ~halted
    /\ Depth(t) > 0
    /\ Top(t).pc = "env"
    /\ SetTop(t, [Top(t) EXCEPT !.pc = "ret", !.got = <<r>>,
                                !.ret = <<ForwardResult(r)>>])
    /\ UNCHANGED <<functions, by_name, built, executor, halted>>

\* The caller takes the result: the frame is gone.
Return(t) ==
    /\ ~halted
    /\ Depth(t) > 0
    /\ Top(t).pc = "ret"
    /\ stack' = [stack EXCEPT ![t] = SubSeq(@, 1, Len(@) - 1)]
    /\ UNCHANGED <<functions, by_name, built, executor, halted>>

(* ------------------------------- inputs -------------------------------- *)

Kinds == {"IndexSpace", "Internal", "External"}
Names == {"add", "sub", "nop"}
\* Below the native range (3, and the last index below it), every index of
\* the longest list, and the first index past it.
Indices ==
    {3} \cup ((NATIVE_INDEX_FUNC_MIN - 1)..(NATIVE_INDEX_FUNC_MIN + MaxFuncs))
\* An item index: <<variant, number>>.
ItemIndices ==
    { <<"Internal", 3>>, <<"External", NATIVE_INDEX_FUNC_MIN>>,
      <<"IndexSpace", NATIVE_INDEX_FUNC_MIN - 1>> }
\* <<caller context, expected function type>>
Callers == { <<"c1", "None">>, <<"c2", "Some">> }
\* <<externals, required type>>
Lookups == { <<"none", "Any">>, <<"e1", "Function">>, <<"none", "Global">> }
\* The inputs of a call made from inside the executor or the wrapped module.
InnerIndices ==
    {NATIVE_INDEX_FUNC_MIN - 1, NATIVE_INDEX_FUNC_MIN, NATIVE_INDEX_FUNC_MIN + MaxFuncs}
InnerKinds == {"Internal", "External"}
InnerResults == { Ok([k |-> "None", id |-> "-"]), Err([k |-> "UserError", id |-> "x1"]) }

\* An outermost call draws from outer, a nested one from inner.
At(t, outer, inner) == IF Depth(t) = 0 THEN outer ELSE inner

(* ---------------- one thread, every method and argument ---------------- *)

Next ==
    \/ \E fs \in Registries : New(fs)
    \/ \E t \in MainThread :
        \/ \E a \in At(t, { <<"user", "none">>, <<"system", "e1">> }, {}) :
                Instantiate(t, a[1], a[2])
        \/ \E i \in At(t, {3, NATIVE_INDEX_FUNC_MIN}, {}) : ExecuteIndex(t, i, "p1")
        \/ \E n \in At(t, {"add", "nop"}, {}) : ExecuteExport(t, n, "p1")
        \/ \E n \in At(t, Names, {"add"}), a \in At(t, Lookups, { <<"none", "Any">> }) :
                ExportEntry(t, n, a[1], a[2])
        \/ \E k \in At(t, Kinds, InnerKinds),
              i \in At(t, Indices, {NATIVE_INDEX_FUNC_MIN}) :
                \E e \in At(t, IF i = 3 THEN {"none", "e1"} ELSE {"none"}, {"none"}) :
                    FunctionType(t, k, i, e)
        \/ \E x \in At(t, ItemIndices, {}) : Table(t, x[1], x[2])
        \/ \E x \in At(t, ItemIndices, { <<"Internal", 3>> }) : Memory(t, x[1], x[2])
        \/ \E x \in At(t, ItemIndices, {}) :
                Global(t, x[1], x[2], IF x[1] = "Internal" THEN "None" ELSE "I32")
        \/ \E x \in At(t, ItemIndices, {}), c \in Callers :
                CallFunction(t, c[1], x[1], x[2], c[2])
        \/ \E c \in At(t, Callers, {}), i \in {3, NATIVE_INDEX_FUNC_MIN} :
                CallFunctionIndirect(t, c[1], "IndexSpace", 0, 1, i)
        \/ \E c \in At(t, Callers, { <<"c2", "None">> }), i \in At(t, Indices, InnerIndices) :
                CallInternalFunction(t, c[1], i, c[2])
        \/ ExecutorWrite(t)
        \/ \E r \in IF Depth(t) = 1 THEN ExecResults ELSE InnerResults :
                ExecutorReturn(t, r)
        \/ \E r \in IF Depth(t) = 1 THEN EnvResults ELSE InnerResults : EnvReturn(t, r)
        \/ Return(t)

Spec == Init /\ [][Next]_vars

(* ------------- several threads, the calls that meet the lock ------------ *)

NextConc ==
    \/ \E fs \in SmallRegistries : New(fs)
    \/ \E t \in Threads :
        \/ \E u \in At(t, {"user"}, {}) : Instantiate(t, u, "none")
        \/ \E i \in At(t, {3}, {}) : ExecuteIndex(t, i, "p1")
        \/ \E n \in At(t, {"nop"}, {}) : ExecuteExport(t, n, "p1")
        \/ \E n \in At(t, {"add", "nop"}, {}) : ExportEntry(t, n, "none", "Function")
        \/ \E k \in At(t, InnerKinds, {"External"}), i \in At(t, InnerIndices, {3}) :
                FunctionType(t, k, i, "none")
        \/ \E i \in At(t, {3}, {}) : Table(t, "Internal", i)
        \/ \E i \in At(t, {3}, {}) : Memory(t, "Internal", i)
        \/ \E i \in At(t, {3}, {}) : Global(t, "Internal", i, "None")
        \/ \E i \in At(t, {3}, {}) : CallFunction(t, "c1", "Internal", i, "None")
        \/ \E i \in At(t, {3}, {}) : CallFunctionIndirect(t, "c1", "IndexSpace", 0, 1, i)
        \/ \E i \in InnerIndices : CallInternalFunction(t, "c1", i, "None")
        \/ ExecutorWrite(t)
        \/ \E r \in InnerResults : ExecutorReturn(t, r)
        \/ \E r \in At(t, {}, {}) \cup {Ok([k |-> "None", id |-> "-"])} : EnvReturn(t, r)
        \/ Return(t)

SpecConc == Init /\ [][NextConc]_vars

(* ------------------------------- claims -------------------------------- *)

\* Every frame of every thread, with its place.
Places == { <<t, i>> : t \in Threads, i \in 1..MaxDepth + 1 }
Live == { p \in Places : p[2] <= Len(stack[p[1]]) }
FrameAt(p) == stack[p[1]][p[2]]
Frames == { FrameAt(p) : p \in Live }

Present(n) == \E i \in 1..Len(functions) : functions[i].name = n
\* The position (from 0) of the last descriptor of the list named n.
PositionOf(n) ==
    CHOOSE p \in 0..(Len(functions) - 1) :
        /\ functions[p + 1].name = n
        /\ \A q \in (p + 1)..(Len(functions) - 1) : functions[q + 1].name # n
TypeOf(f) == FunctionTypeNew(f.params, f.result)
InRange(i) == i >= NATIVE_INDEX_FUNC_MIN /\ i - NATIVE_INDEX_FUNC_MIN < Len(functions)
PastRange(i) == i >= NATIVE_INDEX_FUNC_MIN /\ i - NATIVE_INDEX_FUNC_MIN >= Len(functions)
DescriptorAt(i) == functions[i - NATIVE_INDEX_FUNC_MIN + 1]
Indexed(f) == f.call.kind \in {"IndexSpace", "Internal"}

\* C1: export_entry of a name n of the registry returns the function
\* reference of index NATIVE_INDEX_FUNC_MIN + position_of(n) (the position
\* the registry's lookup holds for n: unique names have one, and of several
\* descriptors of one name it is the last), and function_type of that index
\* returns the parameter list and the result type of the descriptor there,
\* which is registered under n.
C1_ExportThenType ==
    \A f \in Frames :
        /\ (f.call.op = "export_entry" /\ Present(f.call.name)) =>
              /\ f.pc = "ret"
              /\ f.ret = <<Ok(InternalFunction(
                                NATIVE_INDEX_FUNC_MIN + PositionOf(f.call.name)))>>
        /\ (/\ f.call.op = "function_type"
            /\ Indexed(f)
            /\ \E n \in Names :
                  Present(n) /\ f.call.idx = NATIVE_INDEX_FUNC_MIN + PositionOf(n)) =>
              /\ f.pc = "ret"
              /\ f.ret = <<Ok(TypeOf(DescriptorAt(f.call.idx)))>>
              /\ \E n \in Names :
                    /\ Present(n)
                    /\ f.call.idx = NATIVE_INDEX_FUNC_MIN + PositionOf(n)
                    /\ DescriptorAt(f.call.idx).name = n

\* function_type has returned the type of "sub", asked by the index that
\* export_entry gives for "sub" in a list where "sub" is not the first.
C1_Witness ==
    /\ Present("sub") /\ PositionOf("sub") = 1
    /\ \E f \in Frames :
          /\ f.call.op = "function_type"
          /\ f.call.idx = NATIVE_INDEX_FUNC_MIN + by_name["sub"]
          /\ f.pc = "ret"
          /\ f.ret = <<Ok(FunctionTypeNew(<<>>, <<"F64">>))>>

\* C2: a call_internal_function of an index of the native range that has a
\* descriptor invokes the executor exactly once, with that descriptor's name
\* and the caller's context, calls nothing else, and returns exactly what the
\* executor returned, whatever function type was passed.
C2_NativeCallOnce ==
    \A f \in Frames :
        (f.call.op = "call_internal_function" /\ InRange(f.call.idx)) =>
            /\ f.pc \in {"lock", "exec", "ret"}
            /\ f.envCalls = <<>>
            /\ f.pc = "lock" => f.execCalls = <<>>
            /\ f.pc \in {"exec", "ret"} =>
                  f.execCalls = <<[name |-> DescriptorAt(f.call.idx).name,
                                   ctx |-> f.call.ctx]>>
            /\ f.pc = "ret" => Len(f.got) = 1 /\ f.ret = f.got

\* The second function of the list was executed for a caller that passed a
\* function type, and the executor's failure came back.
C2_Witness ==
    \E f \in Frames :
        /\ Len(functions) = 2
        /\ f.call.op = "call_internal_function"
        /\ f.call.idx = NATIVE_INDEX_FUNC_MIN + 1
        /\ f.call.ty = "Some"
        /\ f.pc = "ret"
        /\ f.execCalls = <<[name |-> functions[2].name, ctx |-> "c2"]>>
        /\ f.ret = <<Err([k |-> "UserError", id |-> "x1"])>>

\* C3: function_type and call_internal_function of an index of the native
\* range past the list's end fail with Error::Native naming the index, and
\* neither invokes the executor, takes its lock or calls the wrapped module.
\* (The index is an IndexSpace or Internal one; External is C10's.)
C3_MissingNative ==
    \A f \in Frames :
        (/\ PastRange(f.call.idx)
         /\ \/ f.call.op = "call_internal_function"
            \/ f.call.op = "function_type" /\ Indexed(f)) =>
            /\ f.pc = "ret"
            /\ Len(f.ret) = 1
            /\ f.ret[1].tag = "Err"
            /\ f.ret[1].val.k = "Native"
            /\ f.ret[1].val.idx = f.call.idx
            /\ f.execCalls = <<>>
            /\ f.locks = 0
            /\ f.envCalls = <<>>

\* call_internal_function, called from inside the executor with the first
\* index past a list that is not empty, has failed, and the thread went on
\* without meeting the lock it holds.
C3_Witness ==
    \E t \in Threads :
        /\ Len(functions) > 0
        /\ Depth(t) = 2
        /\ stack[t][1].pc = "exec"
        /\ executor = t
        /\ Top(t).call.op = "call_internal_function"
        /\ Top(t).call.idx = NATIVE_INDEX_FUNC_MIN + Len(functions)
        /\ Top(t).pc = "ret"
        /\ Top(t).ret[1].tag = "Err"

ForwardingOps ==
    {"function_type", "call_internal_function", "call_function",
     "call_function_indirect", "table", "memory", "global", "execute_index"}

\* C4: with an index below NATIVE_INDEX_FUNC_MIN, each of function_type (of
\* an IndexSpace or Internal index), call_internal_function, call_function,
\* call_function_indirect, table, memory, global and execute_index calls the
\* same method of the wrapped module once with the same arguments, invokes
\* no executor and takes no lock, and returns the wrapped module's value or
\* error unchanged.
C4_ForwardBelowThreshold ==
    \A f \in Frames :
        (/\ f.call.op \in ForwardingOps
         /\ f.call.idx < NATIVE_INDEX_FUNC_MIN
         /\ f.call.op = "function_type" => Indexed(f)) =>
            /\ f.pc \in {"env", "ret"}
            /\ f.envCalls = <<f.call>>
            /\ f.execCalls = <<>>
            /\ f.locks = 0
            /\ f.pc = "env" => f.got = <<>> /\ f.ret = <<>>
            /\ f.pc = "ret" => Len(f.got) = 1 /\ f.ret = f.got

\* function_type of index 3 has returned the wrapped module's error.
C4_Witness ==
    \E f \in Frames :
        /\ f.call.op = "function_type"
        /\ f.call.idx = 3
        /\ f.pc = "ret"
        /\ f.envCalls = <<f.call>>
        /\ f.ret = <<Err([k |-> "EnvError", id |-> "e1"])>>

\* C6: export_entry of a name of the registry returns the native function
\* reference for every required_type and never calls the wrapped module
\* (which is not asked whether it exports the name); of any other name it
\* calls export_entry of the wrapped module with the same name, externals
\* and required_type, and returns its result unchanged.
C6_ExportRegistryFirst ==
    \A f \in Frames :
        f.call.op = "export_entry" =>
            IF Present(f.call.name)
            THEN /\ f.pc = "ret"
                 /\ f.envCalls = <<>>
                 /\ f.got = <<>>
                 /\ Len(f.ret) = 1
                 /\ f.ret[1].tag = "Ok"
                 /\ f.ret[1].val.k = "Function"
                 /\ f.ret[1].val.idx >= NATIVE_INDEX_FUNC_MIN
                 /\ DescriptorAt(f.ret[1].val.idx).name = f.call.name
            ELSE /\ f.pc \in {"env", "ret"}
                 /\ f.envCalls = <<f.call>>
                 /\ f.execCalls = <<>>
                 /\ f.pc = "ret" => Len(f.got) = 1 /\ f.ret = f.got

\* A native function was returned to a caller that required a global.
C6_Witness ==
    \E f \in Frames :
        /\ f.call.op = "export_entry"
        /\ f.call.ty = "Global"
        /\ Present(f.call.name)
        /\ f.pc = "ret"
        /\ f.ret[1].val.k = "Function"

\* The frames inside the executor.
Executing == { p \in Live : FrameAt(p).pc = "exec" }
AtLock(t) == Depth(t) > 0 /\ Top(t).pc = "lock"

\* C5: native calls of several threads are serialized: at most one frame is
\* inside the executor at any time, and a thread at the lock while a frame is
\* inside the executor stays there until that frame has left it.
C5_Serialized ==
    /\ [](Cardinality(Executing) <= 1)
    /\ [][\A t \in Threads :
              (AtLock(t) /\ Executing # {}) => stack'[t] = stack[t]]_vars

\* One thread is inside the executor and the other waits at the lock.
C5_Witness ==
    \E t, u \in Threads :
        /\ t # u
        /\ Depth(t) = 1 /\ Top(t).pc = "exec"
        /\ AtLock(u)
        /\ executor = t

\* The thread called a native function from inside the executor.
SelfDeadlocked(t) ==
    /\ AtLock(t)
    /\ \E i \in 1..(Depth(t) - 1) : stack[t][i].pc = "exec"

\* A frame called from inside the executor (directly or through the wrapped
\* module), with an index the method forwards.
ForwardedUnderLock(p) ==
    /\ \E i \in 1..(p[2] - 1) : stack[p[1]][i].pc = "exec"
    /\ FrameAt(p).call.op \in ForwardingOps
    /\ FrameAt(p).call.idx < NATIVE_INDEX_FUNC_MIN
    /\ FrameAt(p).pc # "panic"

\* C7: a native call made on the same module from inside the executor, on
\* the same thread, stays at the lock for ever, and the frames under it
\* never return; a call with an index below NATIVE_INDEX_FUNC_MIN made while
\* the lock is held takes no lock and is not held up: it is inside the
\* wrapped module, which can return.
C7_ReentrantNativeCallBlocks ==
    /\ [][\A t \in Threads :
              SelfDeadlocked(t) =>
                  /\ executor = t
                  /\ stack'[t] = stack[t]
                  /\ executor' = t]_vars
    /\ [](\A p \in Live :
              ForwardedUnderLock(p) =>
                  /\ FrameAt(p).pc \in {"env", "ret"}
                  /\ FrameAt(p).locks = 0
                  /\ executor = p[1]
                  /\ (FrameAt(p).pc = "env" /\ p[2] = Depth(p[1]) /\ ~halted) =>
                        ENABLED EnvReturn(p[1], Ok([k |-> "None", id |-> "-"])))

\* A thread is inside the executor, from there inside the wrapped module by
\* a forwarded call, and from there at the lock it holds itself.
C7_Witness ==
    \E t \in Threads :
        /\ Depth(t) = 3
        /\ stack[t][1].pc = "exec"
        /\ ForwardedUnderLock(<<t, 2>>)
        /\ stack[t][2].pc = "env"
        /\ SelfDeadlocked(t)
        /\ executor = t

\* C8: the lock is taken only by call_internal_function of an index of the
\* native range that has a descriptor, and is held exactly while a frame is
\* inside the executor: it is free again when the executor has returned a
\* value or a failure, and whenever no frame is inside the executor it is
\* free and a thread at the lock can take it.
C8_LockOnlyDuringDispatch ==
    /\ \A t \in Threads : executor = t <=> \E p \in Executing : p[1] = t
    /\ executor \in Threads \cup {"free"}
    /\ \A f \in Frames :
          f.locks =
              IF /\ f.call.op = "call_internal_function"
                 /\ InRange(f.call.idx)
                 /\ f.pc \in {"exec", "ret"}
              THEN 1 ELSE 0
    /\ Executing = {} =>
          /\ executor = "free"
          /\ \A t \in Threads : (AtLock(t) /\ ~halted) => ENABLED ExecutorWrite(t)

\* The executor has failed and the lock is free: the other thread, at the
\* lock, can take it.
C8_Witness ==
    \E t, u \in Threads :
        /\ t # u
        /\ Depth(t) = 1
        /\ Top(t).pc = "ret"
        /\ Top(t).locks = 1
        /\ Top(t).ret = <<Err([k |-> "UserError", id |-> "x1"])>>
        /\ AtLock(u)
        /\ executor = "free"

\* A descriptor that a later one of the same name hides from the lookup.
Shadowed(p) ==
    \E q \in (p + 1)..(Len(functions) - 1) : functions[q + 1].name = functions[p + 1].name

\* C9: a module is built from every list, duplicate names or not; by_name
\* then holds, for each name, the position of the last descriptor of that
\* name, export_entry returns NATIVE_INDEX_FUNC_MIN + that position, and an
\* earlier descriptor of the name keeps its own index: function_type returns
\* its type and call_internal_function executes it.
C9_DuplicatesLastWins ==
    /\ ~built => \A fs \in Registries : ENABLED New(fs)
    /\ built =>
          /\ DOMAIN by_name = { functions[i].name : i \in 1..Len(functions) }
          /\ \A n \in DOMAIN by_name : by_name[n] = PositionOf(n)
          /\ \A f \in Frames :
                /\ (f.call.op = "export_entry" /\ Present(f.call.name)) =>
                      f.ret = <<Ok(InternalFunction(
                                   NATIVE_INDEX_FUNC_MIN + PositionOf(f.call.name)))>>
                /\ \A p \in 0..(Len(functions) - 1) :
                      (Shadowed(p) /\ f.call.idx = NATIVE_INDEX_FUNC_MIN + p) =>
                          /\ (f.call.op = "function_type" /\ Indexed(f)) =>
                                f.ret = <<Ok(TypeOf(functions[p + 1]))>>
                          /\ f.call.op = "call_internal_function" =>
                                /\ f.pc \in {"lock", "exec", "ret"}
                                /\ f.pc # "lock" =>
                                      f.execCalls[1].name = functions[p + 1].name

\* Two descriptors named "add" of different types: the lookup holds the
\* second, and the first was executed by its index.
C9_Witness ==
    /\ built
    /\ Len(functions) = 2
    /\ functions[1].name = "add" /\ functions[2].name = "add"
    /\ functions[1].params # functions[2].params
    /\ by_name["add"] = 1
    /\ \E f \in Frames :
          /\ f.call.op = "call_internal_function"
          /\ f.call.idx = NATIVE_INDEX_FUNC_MIN
          /\ f.pc = "ret"

\* What function_type returns of a native index, by the number alone.
NativeTypeByNumber(i) ==
    IF InRange(i)
    THEN Ok(TypeOf(DescriptorAt(i)))
    ELSE Err(ErrorNative("missing native env function with index", i))

\* C10: function_type of an External index panics, whatever the number, and
\* returns nothing, before the index is compared and without a call of the
\* wrapped module or the executor; the thread never runs on.  An IndexSpace
\* and an Internal index of the same number are treated alike: forwarded
\* below NATIVE_INDEX_FUNC_MIN, answered from the list from it upwards.
C10_ExternalIndexPanics ==
    /\ [](\A p \in Live :
            LET f == FrameAt(p)
            IN  /\ (f.call.op = "function_type" /\ f.call.kind = "External") =>
                      /\ f.pc = "panic"
                      /\ f.envCalls = <<>> /\ f.execCalls = <<>> /\ f.locks = 0
                      /\ f.got = <<>> /\ f.ret = <<>>
                /\ f.pc = "panic" =>
                      /\ f.call.op = "function_type" /\ f.call.kind = "External"
                      /\ p[2] = Depth(p[1])
                /\ (f.call.op = "function_type" /\ Indexed(f)) =>
                      IF f.call.idx < NATIVE_INDEX_FUNC_MIN
                      THEN /\ f.pc \in {"env", "ret"}
                           /\ f.envCalls = <<f.call>>
                      ELSE /\ f.pc = "ret"
                           /\ f.envCalls = <<>>
                           /\ f.ret = <<NativeTypeByNumber(f.call.idx)>>)
    /\ [][\A t \in Threads :
              (Depth(t) > 0 /\ Top(t).pc = "panic") => stack'[t] = stack[t]]_vars

\* function_type has panicked on an External index of the native range that
\* has a descriptor.
C10_Witness ==
    \E t \in Threads :
        /\ Depth(t) > 0
        /\ Top(t).pc = "panic"
        /\ Top(t).call.kind = "External"
        /\ InRange(Top(t).call.idx)

====
